---- MODULE Spec2Model ----
(***************************************************************************)
(* ParkPin: a map screen that keeps one optional marker in memory and a    *)
(* copy of it in AsyncStorage under the key 'marker'.                      *)
(*                                                                         *)
(* Two screens are modelled: src/app/app.tsx ("app": save only) and        *)
(* src/app/(tabs)/_layout.tsx ("tabs": save, remove, centre, side menu).   *)
(* Every action is one synchronous segment of a handler, from one await    *)
(* to the next; the promises in flight are the state between segments.     *)
(* Degrees are fixed-point integers in units of 10^-4 degree.              *)
(***************************************************************************)
EXTENDS Integers, Sequences, FiniteSets, TLC

VARIABLES
    screen,       \* which screen is mounted: "app" or "tabs"
    storage,      \* AsyncStorage's record under the key 'marker'
    storeQ,       \* AsyncStorage calls in flight, served in the order issued
    marker,       \* useState marker
    loading,      \* useState loading
    region,       \* the MapView's viewport (meaningful once loading is false)
    pending,      \* handlers suspended on a permission request or a position fix
    alerts,       \* Alert.alert dialogs on screen
    errorLogged,  \* console.log('Error al cargar marcador:') since the mount
    done,         \* the handler segment the last step ran
    lastApplied,  \* the last mutation AsyncStorage applied
    menuVisible,  \* useState menuVisible
    slideAnim,    \* the Animated.Value slideAnim
    animation,    \* the Animated.timing tween driving slideAnim
    lastTap       \* the last side-menu tap

markerVars == <<screen, storage, storeQ, marker, loading, region, pending,
                alerts, errorLogged, done, lastApplied>>
menuVars == <<menuVisible, slideAnim, animation, lastTap>>
vars == <<screen, storage, storeQ, marker, loading, region, pending,
          alerts, errorLogged, done, lastApplied,
          menuVisible, slideAnim, animation, lastTap>>

----------------------------------------------------------------------------
(* Bounds *)

\* handlers that may be in flight at once
MaxInFlight == 2
\* animation frames of one 300 ms tween
TweenTicks == 2

----------------------------------------------------------------------------
(* Program constants *)

FallbackLatitude == 404168
FallbackLongitude == -37038
RegionDelta == 100
Width == 10

----------------------------------------------------------------------------
(* JavaScript values *)

Null == [type |-> "null"]
Num(n) == [type |-> "number", n |-> n]
Obj(f) == [type |-> "object", fields |-> f]
SyntaxError == [type |-> "SyntaxError"]

Coordinate(lat, lon) == Obj([latitude |-> lat, longitude |-> lon])

\* the position fixes the device can report
Coords == {Coordinate(0, 20), Coordinate(10, -3),
           Coordinate(FallbackLatitude, FallbackLongitude)}

\* JavaScript truthiness of a parsed value
Truthy(v) == \/ v.type = "object"
             \/ (v.type = "number" /\ v.n # 0)

Undefined == [defined |-> FALSE, n |-> 0]

\* v?.key
Member(v, key) ==
    IF v.type = "object" /\ key \in DOMAIN v.fields
    THEN [defined |-> TRUE, n |-> v.fields[key]]
    ELSE Undefined

\* m || d, for a number or undefined m
OrElse(m, d) == IF m.defined /\ m.n # 0 THEN m.n ELSE d

----------------------------------------------------------------------------
(* JSON text: a sequence of characters; a quoted key with its colon and the  *)
(* word null are one element each.                                           *)

Digit == <<"0", "1", "2", "3", "4", "5", "6", "7", "8", "9">>

RECURSIVE DigitsOf(_)
DigitsOf(n) ==
    IF n < 10 THEN <<Digit[n + 1]>>
    ELSE DigitsOf(n \div 10) \o <<Digit[(n % 10) + 1]>>

\* JSON.stringify of a number
NumberToString(n) == IF n < 0 THEN <<"-">> \o DigitsOf(-n) ELSE DigitsOf(n)

\* the two members written under each other's key
JSONStringifySwapped(coords) ==
    <<"{", "latitude:">> \o NumberToString(coords.fields.longitude)
        \o <<",", "longitude:">> \o NumberToString(coords.fields.latitude)
        \o <<"}">>

\* JSON.stringify(coords), coords = {latitude, longitude} in that order
JSONStringify(coords) ==
    <<"{", "latitude:">> \o NumberToString(coords.fields.latitude)
        \o <<",", "longitude:">> \o NumberToString(coords.fields.longitude)
        \o <<"}">>

IsDigit(ch) == \E i \in 1..10 : Digit[i] = ch
DigitValue(ch) == (CHOOSE i \in 1..10 : Digit[i] = ch) - 1

RECURSIVE DigitsValue(_)
DigitsValue(t) ==
    IF Len(t) = 1 THEN DigitValue(t[1])
    ELSE 10 * DigitsValue(SubSeq(t, 1, Len(t) - 1)) + DigitValue(t[Len(t)])

\* the JSON grammar's int: no empty text, no leading zero
IsDigits(t) == /\ Len(t) >= 1
               /\ \A i \in 1..Len(t) : IsDigit(t[i])
               /\ (Len(t) > 1 => t[1] # "0")

IsNumberText(t) ==
    \/ IsDigits(t)
    \/ (Len(t) >= 2 /\ t[1] = "-" /\ IsDigits(Tail(t)))

NumberValue(t) == IF t[1] = "-" THEN 0 - DigitsValue(Tail(t)) ELSE DigitsValue(t)

Keys == {"latitude", "longitude"}
KeyToken(k) == IF k = "latitude" THEN "latitude:" ELSE "longitude:"

\* the first position of a comma in t, or Len(t) + 1
CommaAt(t) ==
    IF \E i \in 1..Len(t) : t[i] = ","
    THEN CHOOSE i \in 1..Len(t) : t[i] = "," /\ \A j \in 1..(i - 1) : t[j] # ","
    ELSE Len(t) + 1

IsMemberText(t) ==
    /\ Len(t) >= 2
    /\ \E k \in Keys : t[1] = KeyToken(k)
    /\ IsNumberText(Tail(t))

MemberKey(t) == CHOOSE k \in Keys : t[1] = KeyToken(k)

\* the members between the braces, as a function from key to number; a
\* repeated key keeps its last value; SyntaxError when the text is no member list
RECURSIVE ParseMembers(_)
ParseMembers(t) ==
    LET c == CommaAt(t)
        first == SubSeq(t, 1, c - 1)
    IN  IF ~IsMemberText(first) THEN SyntaxError
        ELSE IF c > Len(t)
             THEN Obj(MemberKey(first) :> NumberValue(Tail(first)))
             ELSE LET rest == ParseMembers(SubSeq(t, c + 1, Len(t)))
                  IN  IF rest = SyntaxError THEN SyntaxError
                      ELSE Obj(rest.fields @@
                               (MemberKey(first) :> NumberValue(Tail(first))))

\* JSON.parse(text): the value, or SyntaxError where JSON.parse throws
JSONParse(text) ==
    IF text = <<"null">> THEN Null
    ELSE IF IsNumberText(text) THEN Num(NumberValue(text))
    ELSE IF Len(text) >= 3 /\ text[1] = "{" /\ text[Len(text)] = "}"
         THEN ParseMembers(SubSeq(text, 2, Len(text) - 1))
         ELSE SyntaxError

----------------------------------------------------------------------------
(* AsyncStorage *)

Absent == [present |-> FALSE, text |-> <<>>]
Record(t) == [present |-> TRUE, text |-> t]

\* records that are no encoding of {latitude, longitude}
MalformedTexts ==
    { <<>>,                               \* the empty string
      <<"{">>,                            \* JSON.parse throws
      <<"null">>,                         \* parses to null
      <<"4", "2">>,                       \* parses to a number
      <<"{", "latitude:", "5", "}">> }    \* parses to an object with no longitude

StoredRecords ==
    {Absent} \cup {Record(JSONStringify(c)) : c \in Coords}
             \cup {Record(t) : t \in MalformedTexts}

\* if (json): getItem's null and the empty string are falsy
JsonTruthy(json) == json.present /\ json.text # <<>>

GetItem == [op |-> "getItem", value |-> <<>>, coords |-> Null]
SetItem(text, c) == [op |-> "setItem", value |-> text, coords |-> c]
RemoveItem == [op |-> "removeItem", value |-> <<>>, coords |-> Null]

----------------------------------------------------------------------------
(* The screen *)

Event(handler, outcome, c, json) ==
    [handler |-> handler, outcome |-> outcome, coords |-> c, json |-> json]

NoPending == [savePerm |-> 0, saveFix |-> 0, centerPerm |-> 0, centerFix |-> 0]

InFlight == pending.savePerm + pending.saveFix + pending.centerPerm
                + pending.centerFix + Len(storeQ)

\* the MapView is not on screen while the loading indicator is
Unmounted == [latitude |-> 0, longitude |-> 0,
              latitudeDelta |-> 0, longitudeDelta |-> 0]

RegionAt(lat, lon) == [latitude |-> lat, longitude |-> lon,
                       latitudeDelta |-> RegionDelta, longitudeDelta |-> RegionDelta]

\* the fallback forgotten: an absent member read as 0
initialRegionNoFallback(m) ==
    RegionAt(Member(m, "latitude").n, Member(m, "longitude").n)

initialRegion(m) ==
    RegionAt(OrElse(Member(m, "latitude"), FallbackLatitude),
             OrElse(Member(m, "longitude"), FallbackLongitude))

\* the statuses requestForegroundPermissionsAsync resolves with
NotGranted == {"denied", "undetermined"}

\* {marker && ...}: the remove button is rendered
RemoveButtonRendered == Truthy(marker)

\* the buttons take taps: the map screen is shown and no alert covers it
Tappable == ~loading /\ alerts = 0

\* useEffect(() => { loadMarker() }, []) has run up to its await
Mounted(scr, stored, applied) ==
    /\ screen = scr
    /\ storage = stored
    /\ storeQ = <<GetItem>>
    /\ marker = Null
    /\ loading = TRUE
    /\ region = Unmounted
    /\ pending = NoPending
    /\ alerts = 0
    /\ errorLogged = FALSE
    /\ done = Event("mount", "started", Null, Absent)
    /\ lastApplied = applied

NothingApplied == [op |-> "none", coords |-> Null, times |-> 0]

NoAnimation == [active |-> FALSE, from |-> Width, to |-> Width,
                elapsed |-> 0, onEnd |-> "none"]

Init ==
    /\ \E scr \in {"app", "tabs"} : \E stored \in StoredRecords :
           Mounted(scr, stored, NothingApplied)
    /\ menuVisible = FALSE
    /\ slideAnim = Width
    /\ animation = NoAnimation
    /\ lastTap = "none"

(* loadMarker *)

\* the marker after the try block, given what getItem resolved with
LoadedMarker(json, m) ==
    IF JsonTruthy(json) /\ JSONParse(json.text) # SyntaxError
    THEN JSONParse(json.text)
    ELSE m

\* the catch block ran
LoadThrew(json) == JsonTruthy(json) /\ JSONParse(json.text) = SyntaxError

GetItemResolves ==
    /\ storeQ # <<>> /\ Head(storeQ).op = "getItem"
    /\ storeQ' = Tail(storeQ)
    /\ marker' = LoadedMarker(storage, marker)
    /\ errorLogged' = (errorLogged \/ LoadThrew(storage))
    /\ loading' = FALSE
    /\ region' = initialRegion(marker')
    /\ done' = Event("loadMarker", "returned", Null, storage)
    /\ UNCHANGED <<screen, storage, pending, alerts, lastApplied>>
    /\ UNCHANGED menuVars

GetItemRejects ==
    /\ storeQ # <<>> /\ Head(storeQ).op = "getItem"
    /\ storeQ' = Tail(storeQ)
    /\ errorLogged' = TRUE
    /\ loading' = FALSE
    /\ region' = initialRegion(marker)
    /\ done' = Event("loadMarker", "readFailed", Null, storage)
    /\ UNCHANGED <<screen, storage, marker, pending, alerts, lastApplied>>
    /\ UNCHANGED menuVars

(* handleSetMarker *)

TapSave ==
    /\ Tappable
    /\ InFlight < MaxInFlight
    /\ pending' = [pending EXCEPT !.savePerm = @ + 1]
    /\ done' = Event("handleSetMarker", "started", Null, Absent)
    /\ UNCHANGED <<screen, storage, storeQ, marker, loading, region, alerts,
                   errorLogged, lastApplied>>
    /\ UNCHANGED menuVars

\* the return after the alert forgotten: the handler goes on to ask for a fix
HandleSetMarkerDeniedNoReturn ==
    /\ pending.savePerm > 0
    /\ \E status \in NotGranted :
          /\ pending' = [pending EXCEPT !.savePerm = @ - 1, !.saveFix = @ + 1]
          /\ alerts' = alerts + 1
          /\ done' = Event("handleSetMarker", status, Null, Absent)
    /\ UNCHANGED <<screen, storage, storeQ, marker, loading, region,
                   errorLogged, lastApplied>>
    /\ UNCHANGED menuVars

HandleSetMarkerDenied ==
    /\ pending.savePerm > 0
    /\ \E status \in NotGranted :
          /\ pending' = [pending EXCEPT !.savePerm = @ - 1]
          /\ alerts' = alerts + 1
          /\ done' = Event("handleSetMarker", status, Null, Absent)
    /\ UNCHANGED <<screen, storage, storeQ, marker, loading, region,
                   errorLogged, lastApplied>>
    /\ UNCHANGED menuVars

HandleSetMarkerGranted ==
    /\ pending.savePerm > 0
    /\ pending' = [pending EXCEPT !.savePerm = @ - 1, !.saveFix = @ + 1]
    /\ done' = Event("handleSetMarker", "granted", Null, Absent)
    /\ UNCHANGED <<screen, storage, storeQ, marker, loading, region, alerts,
                   errorLogged, lastApplied>>
    /\ UNCHANGED menuVars

HandleSetMarkerFix ==
    /\ pending.saveFix > 0
    /\ \E c \in Coords :
          /\ marker' = c
          /\ storeQ' = Append(storeQ, SetItem(JSONStringify(c), c))
          /\ done' = Event("handleSetMarker", "fixed", c, Absent)
    /\ pending' = [pending EXCEPT !.saveFix = @ - 1]
    /\ UNCHANGED <<screen, storage, loading, region, alerts, errorLogged,
                   lastApplied>>
    /\ UNCHANGED menuVars

HandleSetMarkerFixFails ==
    /\ pending.saveFix > 0
    /\ pending' = [pending EXCEPT !.saveFix = @ - 1]
    /\ done' = Event("handleSetMarker", "fixFailed", Null, Absent)
    /\ UNCHANGED <<screen, storage, storeQ, marker, loading, region, alerts,
                   errorLogged, lastApplied>>
    /\ UNCHANGED menuVars

Applied(op, c) ==
    [op |-> op, coords |-> c,
     times |-> IF lastApplied.op = op /\ lastApplied.coords = c
                  /\ lastApplied.times >= 1
               THEN 2 ELSE 1]

SetItemResolves ==
    /\ storeQ # <<>> /\ Head(storeQ).op = "setItem"
    /\ storage' = Record(Head(storeQ).value)
    /\ storeQ' = Tail(storeQ)
    /\ lastApplied' = Applied("setItem", Head(storeQ).coords)
    /\ done' = Event("handleSetMarker", "returned", Head(storeQ).coords, Absent)
    /\ UNCHANGED <<screen, marker, loading, region, pending, alerts, errorLogged>>
    /\ UNCHANGED menuVars

SetItemRejects ==
    /\ storeQ # <<>> /\ Head(storeQ).op = "setItem"
    /\ storeQ' = Tail(storeQ)
    /\ done' = Event("handleSetMarker", "writeFailed", Head(storeQ).coords, Absent)
    /\ UNCHANGED <<screen, storage, marker, loading, region, pending, alerts,
                   errorLogged, lastApplied>>
    /\ UNCHANGED menuVars

(* handleRemoveMarker *)

TapRemove ==
    /\ screen = "tabs"
    /\ Tappable
    /\ RemoveButtonRendered
    /\ InFlight < MaxInFlight
    /\ marker' = Null
    /\ storeQ' = Append(storeQ, RemoveItem)
    /\ done' = Event("handleRemoveMarker", "started", Null, Absent)
    /\ UNCHANGED <<screen, storage, loading, region, pending, alerts,
                   errorLogged, lastApplied>>
    /\ UNCHANGED menuVars

RemoveItemResolves ==
    /\ storeQ # <<>> /\ Head(storeQ).op = "removeItem"
    /\ storage' = Absent
    /\ storeQ' = Tail(storeQ)
    /\ lastApplied' = Applied("removeItem", Null)
    /\ done' = Event("handleRemoveMarker", "returned", Null, Absent)
    /\ UNCHANGED <<screen, marker, loading, region, pending, alerts, errorLogged>>
    /\ UNCHANGED menuVars

RemoveItemRejects ==
    /\ storeQ # <<>> /\ Head(storeQ).op = "removeItem"
    /\ storeQ' = Tail(storeQ)
    /\ done' = Event("handleRemoveMarker", "removeFailed", Null, Absent)
    /\ UNCHANGED <<screen, storage, marker, loading, region, pending, alerts,
                   errorLogged, lastApplied>>
    /\ UNCHANGED menuVars

(* centerMapOnUser *)

TapCenter ==
    /\ screen = "tabs"
    /\ Tappable
    /\ InFlight < MaxInFlight
    /\ pending' = [pending EXCEPT !.centerPerm = @ + 1]
    /\ done' = Event("centerMapOnUser", "started", Null, Absent)
    /\ UNCHANGED <<screen, storage, storeQ, marker, loading, region, alerts,
                   errorLogged, lastApplied>>
    /\ UNCHANGED menuVars

CenterMapOnUserDenied ==
    /\ pending.centerPerm > 0
    /\ \E status \in NotGranted :
          /\ pending' = [pending EXCEPT !.centerPerm = @ - 1]
          /\ alerts' = alerts + 1
          /\ done' = Event("centerMapOnUser", status, Null, Absent)
    /\ UNCHANGED <<screen, storage, storeQ, marker, loading, region,
                   errorLogged, lastApplied>>
    /\ UNCHANGED menuVars

CenterMapOnUserGranted ==
    /\ pending.centerPerm > 0
    /\ pending' = [pending EXCEPT !.centerPerm = @ - 1, !.centerFix = @ + 1]
    /\ done' = Event("centerMapOnUser", "granted", Null, Absent)
    /\ UNCHANGED <<screen, storage, storeQ, marker, loading, region, alerts,
                   errorLogged, lastApplied>>
    /\ UNCHANGED menuVars

\* mapRef.current?.animateToRegion(coords, 1000): the viewport ends on coords
CenterMapOnUserFix ==
    /\ pending.centerFix > 0
    /\ \E c \in Coords :
          /\ region' = RegionAt(c.fields.latitude, c.fields.longitude)
          /\ done' = Event("centerMapOnUser", "returned", c, Absent)
    /\ pending' = [pending EXCEPT !.centerFix = @ - 1]
    /\ UNCHANGED <<screen, storage, storeQ, marker, loading, alerts,
                   errorLogged, lastApplied>>
    /\ UNCHANGED menuVars

CenterMapOnUserFixFails ==
    /\ pending.centerFix > 0
    /\ pending' = [pending EXCEPT !.centerFix = @ - 1]
    /\ done' = Event("centerMapOnUser", "fixFailed", Null, Absent)
    /\ UNCHANGED <<screen, storage, storeQ, marker, loading, region, alerts,
                   errorLogged, lastApplied>>
    /\ UNCHANGED menuVars

(* the user *)

DismissAlert ==
    /\ alerts > 0
    /\ alerts' = alerts - 1
    /\ done' = Event("Alert", "dismissed", Null, Absent)
    /\ UNCHANGED <<screen, storage, storeQ, marker, loading, region, pending,
                   errorLogged, lastApplied>>
    /\ UNCHANGED menuVars

\* the app is closed while idle and opened again: the screen mounts afresh,
\* AsyncStorage keeps its record
Relaunch ==
    /\ Tappable
    /\ InFlight = 0
    /\ storeQ' = <<GetItem>>
    /\ marker' = Null
    /\ loading' = TRUE
    /\ region' = Unmounted
    /\ errorLogged' = FALSE
    /\ done' = Event("mount", "started", Null, Absent)
    /\ UNCHANGED <<screen, storage, pending, alerts, lastApplied>>
    /\ UNCHANGED menuVars

Next ==
    \/ GetItemResolves
    \/ GetItemRejects
    \/ TapSave
    \/ HandleSetMarkerDenied
    \/ HandleSetMarkerGranted
    \/ HandleSetMarkerFix
    \/ HandleSetMarkerFixFails
    \/ SetItemResolves
    \/ SetItemRejects
    \/ TapRemove
    \/ RemoveItemResolves
    \/ RemoveItemRejects
    \/ TapCenter
    \/ CenterMapOnUserDenied
    \/ CenterMapOnUserGranted
    \/ CenterMapOnUserFix
    \/ CenterMapOnUserFixFails
    \/ DismissAlert
    \/ Relaunch

Spec == Init /\ [][Next]_vars

----------------------------------------------------------------------------
(* The side menu of the "tabs" screen.  Its state is independent of the     *)
(* marker's, so it is explored by a specification of its own; the overlay   *)
(* it shows only keeps taps from the buttons below it.                      *)

OpenTo == (Width * 4) \div 10

\* Animated.timing(slideAnim, {toValue, duration: 300}) with its end callback
Timing(toValue, onEnd) ==
    [active |-> TRUE, from |-> slideAnim, to |-> toValue,
     elapsed |-> 0, onEnd |-> onEnd]

\* a tween ends, finished or stopped: its callback runs, and closeMenu's
\* callback does not look at {finished}
EndCallback(anim, visible) ==
    IF anim.active /\ anim.onEnd = "setMenuVisible(false)" THEN FALSE ELSE visible

\* the header's menu button is reachable only while the overlay is not shown
OpenMenu ==
    /\ screen = "tabs"
    /\ Tappable
    /\ ~menuVisible
    /\ menuVisible' = EndCallback(animation, TRUE)
    /\ animation' = Timing(OpenTo, "none")
    /\ lastTap' = "openMenu"
    /\ UNCHANGED slideAnim
    /\ UNCHANGED markerVars

\* the overlay and the Cerrar button exist only while menuVisible
CloseMenu ==
    /\ screen = "tabs"
    /\ Tappable
    /\ menuVisible
    /\ menuVisible' = EndCallback(animation, menuVisible)
    /\ animation' = Timing(Width, "setMenuVisible(false)")
    /\ lastTap' = "closeMenu"
    /\ UNCHANGED slideAnim
    /\ UNCHANGED markerVars

\* one animation frame of the running tween
Frame ==
    /\ animation.active
    /\ LET e == animation.elapsed + 1
       IN  IF e >= TweenTicks
           THEN /\ slideAnim' = animation.to
                /\ animation' = NoAnimation
                /\ menuVisible' = EndCallback(animation, menuVisible)
           ELSE /\ slideAnim' = animation.from
                        + ((animation.to - animation.from) * e) \div TweenTicks
                /\ animation' = [animation EXCEPT !.elapsed = e]
                /\ UNCHANGED menuVisible
    /\ UNCHANGED lastTap
    /\ UNCHANGED markerVars

MenuNext ==
    \/ GetItemResolves
    \/ GetItemRejects
    \/ OpenMenu
    \/ CloseMenu
    \/ Frame

MenuSpec == Init /\ [][MenuNext]_vars

----------------------------------------------------------------------------
(* Properties *)

SaveInFlight ==
    pending.savePerm + pending.saveFix
        + Cardinality({i \in 1..Len(storeQ) : storeQ[i].op = "setItem"})
RemoveInFlight == Cardinality({i \in 1..Len(storeQ) : storeQ[i].op = "removeItem"})
CenterInFlight == pending.centerPerm + pending.centerFix

Quiescent == InFlight = 0 /\ ~loading

IsCoordinateValue(v) == v.type = "object" /\ DOMAIN v.fields = Keys
IsCoordinateText(t) == IsCoordinateValue(JSONParse(t))

Decodes(stored, c) == stored.present /\ JSONParse(stored.text) = c

Fallback == RegionAt(FallbackLatitude, FallbackLongitude)

Centre(r) == <<r.latitude, r.longitude>>
CentreOf(c) == <<c.fields.latitude, c.fields.longitude>>

SaveReturned == done.handler = "handleSetMarker" /\ done.outcome = "returned"
RemoveReturned == done.handler = "handleRemoveMarker" /\ done.outcome = "returned"
LoadReturned == done.handler = "loadMarker" /\ done.outcome = "returned"
LoadEnded == done.handler = "loadMarker"

\* C1: when handleSetMarker, granted the permission and given the fix c, has
\* completed with the write done, the marker is c and the record decodes to c.
C1_SaveSetsMarkerAndRecord ==
    SaveReturned => (marker = done.coords /\ Decodes(storage, done.coords))

\* C2: when handleRemoveMarker has completed, the marker is null and no record
\* is stored; a load that follows with no save in between yields no marker.
C2_RemoveClearsMarkerAndRecord ==
    /\ RemoveReturned => (marker = Null /\ storage = Absent)
    /\ (LoadEnded /\ lastApplied.op = "removeItem") => marker = Null

\* C3: a handleSetMarker or centerMapOnUser that finds the permission not
\* granted changes nothing from the tap to its return: neither its first
\* segment nor the one that learns the status touches the marker, the record,
\* the viewport, the storage calls in flight or the position fixes requested,
\* and the latter shows one alert.
C3_DeniedChangesNothing ==
    [][(/\ done'.handler \in {"handleSetMarker", "centerMapOnUser"}
        /\ done'.outcome \in NotGranted \cup {"started"})
          => /\ done'.outcome \in NotGranted => alerts' = alerts + 1
             /\ marker' = marker
             /\ storage' = storage
             /\ region' = region
             /\ storeQ' = storeQ
             /\ pending'.saveFix = pending.saveFix
             /\ pending'.centerFix = pending.centerFix]_vars

C3_Witness ==
    /\ done.handler = "centerMapOnUser" /\ done.outcome = "denied"
    /\ alerts = 2
    /\ marker = Coordinate(10, -3)
    /\ Decodes(storage, Coordinate(0, 20))
    /\ region = RegionAt(0, 20)

\* C4: every coordinate stored under 'marker', a zero latitude or longitude
\* included, is the marker after the load and the centre of the initial region.
C4_StoredCoordinateIsMarkerAndCentre ==
    \A c \in Coords :
        (LoadReturned /\ done.json = Record(JSONStringify(c)))
            => (marker = c /\ Centre(region) = CentreOf(c))

\* C5: with no record stored, the load ends with loading false, no marker, no
\* remove button, the fallback region with its 0.01 deltas, and no error.
C5_NoRecordGivesFallback ==
    (LoadReturned /\ done.json = Absent)
        => /\ ~loading
           /\ marker = Null
           /\ ~RemoveButtonRendered
           /\ region = Fallback
           /\ ~errorLogged
           /\ alerts = 0

C5_Witness ==
    /\ LoadReturned /\ done.json = Absent
    /\ lastApplied.op = "removeItem"
    /\ region = Fallback

\* C6: a record that is no encoding of {latitude, longitude}, or a read that
\* fails, leaves the screen as if no record existed: no marker, no alert, the
\* record untouched, loading false.
C6_MalformedRecordIsNoMarker ==
    (LoadEnded /\ (\/ done.outcome = "readFailed"
                   \/ (done.json.present /\ ~IsCoordinateText(done.json.text))))
        => /\ marker = Null
           /\ alerts = 0
           /\ storage = done.json
           /\ ~loading

MarkerMatchesRecord ==
    \/ (marker = Null /\ storage = Absent)
    \/ (IsCoordinateValue(marker) /\ Decodes(storage, marker))

\* C7: with no handler in flight, the marker equals the record.  (Stated for
\* the launches whose load found a well-formed or absent record and did not
\* fail, so that only save and remove taps can make the two differ.)
C7_QuiescentMarkerEqualsRecord ==
    (/\ Quiescent
     /\ ~errorLogged
     /\ (storage = Absent \/ IsCoordinateText(storage.text)))
        => MarkerMatchesRecord

\* C8: a coordinate written by the save path, once or twice over, is the
\* marker after the next load.
C8_SaveThenLoadRoundTrips ==
    \A c \in Coords :
        (LoadReturned /\ lastApplied.op = "setItem" /\ lastApplied.coords = c)
            => marker = c

C8_Witness ==
    /\ LoadReturned
    /\ lastApplied = [op |-> "setItem", coords |-> Coordinate(10, -3), times |-> 2]
    /\ marker = Coordinate(10, -3)

\* C9: no handler is started again while an invocation of it is suspended, and
\* no two mutating operations are in flight together.
C9_NoOverlappingHandlers ==
    /\ SaveInFlight <= 1
    /\ RemoveInFlight <= 1
    /\ CenterInFlight <= 1
    /\ SaveInFlight + RemoveInFlight <= 1

\* C10: once the tween has settled, the menu is visible at width*0.4 when the
\* last tap was openMenu and hidden at width when it was closeMenu.
C10_MenuFollowsLastTap ==
    ~animation.active =>
        /\ lastTap = "openMenu" => (menuVisible /\ slideAnim = OpenTo)
        /\ lastTap = "closeMenu" => (~menuVisible /\ slideAnim = Width)

====
